---- MODULE Spec2Model ----
(***************************************************************************)
(* A model of src/src/lib.rs: the bit-level Keccak-f[1600] permutation,    *)
(* the sponge construction, pad10*1, the byte/bit codec and the four      *)
(* sha3_n wrappers.  Bit strings (Vec<bool>, [bool; B], &[bool]) are      *)
(* sequences of BOOLEAN, so Rust index i is sequence index i + 1.  The    *)
(* state cube [[[bool; W]; 5]; 5] is a function indexed state[x][y][z]    *)
(* from 0, as in the source.                                              *)
(***************************************************************************)
EXTENDS Integers, Sequences, FiniteSets, TLC

VARIABLES
    pc,         \* position of the running call
    call,       \* the arguments of the call under way
    bits,       \* sha3!: `bits`, the message bits handed to keccak
    sp,         \* sponge: its arguments r, d
    p,          \* sponge: the padded message `p`
    blk,        \* sponge: index of the next chunk of p.chunks(r)
    s,          \* sponge: the flat state `s`
    z,          \* sponge: the output `z`
    caller,     \* which loop of sponge called f: "absorb" or "squeeze"
    st,         \* keccak_f: the state cube `state`
    roundIdx,   \* keccak_f: the loop counter i of `for i in 0..num_rounds`
    out,        \* sha3!: `result_bytes`
    ret,        \* the value returned by a directly called helper
    nAbsorbF,   \* number of calls of f made by the absorbing loop
    nSqueezeF,  \* number of calls of f made by the squeezing loop
    sqs         \* the values of `s` read by z.extend_from_slice, in order

vars == <<pc, call, bits, sp, p, blk, s, z, caller, st, roundIdx, out, ret,
          nAbsorbF, nSqueezeF, sqs>>

-----------------------------------------------------------------------------
(* Constants of the crate *)

B == 1600

W == B \div 25

RECURSIVE trailing_zeros(_)
trailing_zeros(v) == IF v % 2 = 1 THEN 0 ELSE 1 + trailing_zeros(v \div 2)

L == trailing_zeros(W)

U8BITS == 8

-----------------------------------------------------------------------------
(* Machine integers *)

RECURSIVE Pow2(_)
Pow2(k) == IF k = 0 THEN 1 ELSE 2 * Pow2(k - 1)

\* a ^ b on unsigned integers
RECURSIVE BitXor(_, _)
BitXor(a, b) ==
    IF a = 0 /\ b = 0 THEN 0
    ELSE (((a % 2) + (b % 2)) % 2) + 2 * BitXor(a \div 2, b \div 2)

\* a | b on unsigned integers
RECURSIVE BitOr(_, _)
BitOr(a, b) ==
    IF a = 0 /\ b = 0 THEN 0
    ELSE (IF a % 2 = 1 \/ b % 2 = 1 THEN 1 ELSE 0) + 2 * BitOr(a \div 2, b \div 2)

\* wrapping u8 arithmetic
U8(v) == v % 256

\* isize `%`: the remainder truncated toward zero (divisor > 0)
RemTrunc(a, b) == IF a >= 0 THEN a % b ELSE 0 - ((0 - a) % b)

\* isize::rem_euclid (divisor > 0)
rem_euclid(a, b) == a % b

Min(a, b) == IF a <= b THEN a ELSE b

Take(q, k) == SubSeq(q, 1, Min(k, Len(q)))

\* mutant of truncate: the output is returned as squeezed
truncate_Skipped(q, len) == q

\* Vec::truncate(len)
truncate(q, len) == Take(q, len)

-----------------------------------------------------------------------------
(* State container *)

new_state == [x \in 0..4 |-> [y \in 0..4 |-> [zz \in 0..(W - 1) |-> FALSE]]]

\* mutant of FillZ: the two lane coordinates exchanged in the write
FillZ_Transposed(state, bs, i, x, y) ==
    LET k == Min(W, IF Len(bs) > i THEN Len(bs) - i ELSE 0)
    IN  [state |-> [state EXCEPT ![y][x] =
                       [zz \in 0..(W - 1) |->
                           IF zz < k THEN bs[i + zz + 1] ELSE state[y][x][zz]]],
         i |-> i + k,
         returned |-> k < W]

\* The iterate! loop nest of fill_state: y outermost, then x, then z.  Each
\* level carries the state, the counter i and whether `return` was taken.
\* The innermost loop, over z for one lane, makes k = min(W, len - i) passes
\* before `i >= bits.len()` holds or z reaches W; pass zz writes bits[i + zz].
FillZ(state, bs, i, x, y) ==
    LET k == Min(W, IF Len(bs) > i THEN Len(bs) - i ELSE 0)
    IN  [state |-> [state EXCEPT ![x][y] =
                       [zz \in 0..(W - 1) |->
                           IF zz < k THEN bs[i + zz + 1] ELSE state[x][y][zz]]],
         i |-> i + k,
         returned |-> k < W]

RECURSIVE FillX(_, _, _, _, _)
FillX(state, bs, i, x, y) ==
    IF x = 5 THEN [state |-> state, i |-> i, returned |-> FALSE]
    ELSE LET a == FillZ(state, bs, i, x, y)
         IN  IF a.returned THEN a ELSE FillX(a.state, bs, a.i, x + 1, y)

RECURSIVE FillY(_, _, _, _)
FillY(state, bs, i, y) ==
    IF y = 5 THEN [state |-> state, i |-> i, returned |-> FALSE]
    ELSE LET a == FillX(state, bs, i, 0, y)
         IN  IF a.returned THEN a ELSE FillY(a.state, bs, a.i, y + 1)

fill_state(state, bs) == FillY(state, bs, 0, 0).state

copy_state(dest, src) ==
    [x \in 0..4 |-> [y \in 0..4 |-> [zz \in 0..(W - 1) |-> src[x][y][zz]]]]

\* The iterate! loop nest of dump_state, carrying `bits`, i and `return`.
\* The innermost loop makes k = min(W, bits.len() - i) passes; pass zz
\* writes bits[i + zz] = state[x][y][zz], the rest of bits is kept.
DumpZ(state, bs, i, x, y) ==
    LET k == Min(W, IF Len(bs) > i THEN Len(bs) - i ELSE 0)
    IN  [bits |-> SubSeq(bs, 1, i)
                    \o [j \in 1..k |-> state[x][y][j - 1]]
                    \o SubSeq(bs, i + k + 1, Len(bs)),
         i |-> i + k,
         returned |-> k < W]

RECURSIVE DumpX(_, _, _, _, _)
DumpX(state, bs, i, x, y) ==
    IF x = 5 THEN [bits |-> bs, i |-> i, returned |-> FALSE]
    ELSE LET a == DumpZ(state, bs, i, x, y)
         IN  IF a.returned THEN a ELSE DumpX(state, a.bits, a.i, x + 1, y)

RECURSIVE DumpY(_, _, _, _)
DumpY(state, bs, i, y) ==
    IF y = 5 THEN [bits |-> bs, i |-> i, returned |-> FALSE]
    ELSE LET a == DumpX(state, bs, i, 0, y)
         IN  IF a.returned THEN a ELSE DumpY(state, a.bits, a.i, y + 1)

dump_state(state) == DumpY(state, [i \in 1..B |-> FALSE], 0, 0).bits

-----------------------------------------------------------------------------
(* Step mappings *)

theta(state) ==
    LET c == [x \in 0..4 |-> [zz \in 0..(W - 1) |->
                 (((state[x][0][zz] # state[x][1][zz]) # state[x][2][zz])
                    # state[x][3][zz]) # state[x][4][zz]]]
        d == [x \in 0..4 |-> [zz \in 0..(W - 1) |->
                 LET x1 == (x + 4) % 5
                     z2 == (zz + W - 1) % W
                 IN  c[x1][zz] # c[(x + 1) % 5][z2]]]
    IN  [x \in 0..4 |-> [y \in 0..4 |-> [zz \in 0..(W - 1) |->
            state[x][y][zz] # d[x][zz]]]]

\* rho: `let new_z = (z + (t * (t + 1)) / 2) % W`
RhoNewZ(zz, t) == (zz + (t * (t + 1)) \div 2) % W

\* rho: the lane (x, y) visited by pass t of `for t in 0..24`: (1, 0) at
\* first, then `(new_x, new_y) = (y, (2 * x + 3 * y) % 5)`
RECURSIVE RhoXY(_)
RhoXY(t) ==
    IF t = 0 THEN <<1, 0>>
    ELSE LET q == RhoXY(t - 1) IN <<q[2], (2 * q[1] + 3 * q[2]) % 5>>

RhoLanes == [t \in 0..23 |-> RhoXY(t)]

\* rho: the passes that write lane (x, y)
RhoPasses(x, y) == {t \in 0..23 : RhoLanes[t] = <<x, y>>}

Max(S) == CHOOSE v \in S : \A u \in S : u <= v

\* rho: new_state starts all false, lane (0, 0) is copied, and pass t writes
\* new_state[x][y][z] = state[x][y][new_z] for its lane (the last pass that
\* writes a lane decides it)
rho(state) ==
    copy_state(state,
        [x \in 0..4 |-> [y \in 0..4 |->
            LET ts == RhoPasses(x, y)
            IN  [zz \in 0..(W - 1) |->
                    IF ts # {} THEN state[x][y][RhoNewZ(zz, Max(ts))]
                    ELSE IF x = 0 /\ y = 0 THEN state[0][0][zz]
                    ELSE FALSE]]])

pi(state) ==
    copy_state(state,
        [x \in 0..4 |-> [y \in 0..4 |-> [zz \in 0..(W - 1) |->
            state[(x + 3 * y) % 5][x][zz]]]])

chi(state) ==
    copy_state(state,
        [x \in 0..4 |-> [y \in 0..4 |-> [zz \in 0..(W - 1) |->
            state[x][y][zz] #
                ((~state[(x + 1) % 5][y][zz]) /\ state[(x + 2) % 5][y][zz])]]])

\* rc: one pass of `r = ((r << 1) ^ ((r >> 7) & 1) * 0x71) & 0xff` on a u16
RcStep(r) == BitXor((r * 2) % 65536, ((r \div 128) % 2) * 113) % 256

\* rc: k passes of the loop body on the u16 register r.  The passes are
\* split in halves and the register between them is evaluated before the
\* second half starts (the test on h, true of every u16), which bounds the
\* depth of the evaluation.
RECURSIVE RcLoop(_, _)
RcLoop(r, k) ==
    IF k = 0 THEN r
    ELSE IF k = 1 THEN RcStep(r)
    ELSE LET h == RcLoop(r, k \div 2)
         IN  IF h \in 0..65535 THEN RcLoop(h, k - (k \div 2)) ELSE h

rc(t) == ((RcLoop(128, t % 255) \div 128) % 2) # 0

\* iota: the argument `j as u8 + 7 * round_index`, before the u8 wraps it
IotaT(j, round_index) == j + 7 * round_index

\* iota: the index `(1 << j) - 1`
IotaBit(j) == Pow2(j) - 1

\* iota: the passes of `for j in 0..=L` that write rc_arr[zz]
IotaPasses(zz) == {j \in 0..L : IotaBit(j) = zz}

\* iota: rc_arr starts all false and pass j writes
\* rc_arr[(1 << j) - 1] = rc(j as u8 + 7 * round_index)
RcArr(round_index) ==
    [zz \in 0..(W - 1) |->
        LET js == IotaPasses(zz)
        IN  IF js = {} THEN FALSE ELSE rc(U8(IotaT(Max(js), round_index)))]

iota(state, round_index) ==
    LET rc_arr == RcArr(round_index)
    IN  [state EXCEPT ![0][0] =
            [zz \in 0..(W - 1) |-> state[0][0][zz] # rc_arr[zz]]]

\* mutant of num_rounds: the lane size taken for its logarithm
num_rounds_OfW == 12 + 2 * W

num_rounds == 12 + 2 * L

-----------------------------------------------------------------------------
(* Padding, sponge helpers, codec *)

\* mutant of pad101: the remainder truncated toward zero taken for the
\* Euclidean one
pad101_TruncRem(x, m) ==
    LET j == RemTrunc(x - RemTrunc(m, x) - 2, x)
    IN  [i \in 1..(j + 2) |-> (i = 1) \/ (i = j + 2)]

pad101(x, m) ==
    LET j == rem_euclid(x - RemTrunc(m, x) - 2, x)
    IN  [i \in 1..(j + 2) |-> (i = 1) \/ (i = j + 2)]

\* p.chunks(r): the number of chunks and the i-th chunk (from 0); the last
\* chunk is shorter when r does not divide Len(q)
NumChunks(q, r) == (Len(q) + r - 1) \div r

Chunk(q, r, i) == SubSeq(q, i * r + 1, Min((i + 1) * r, Len(q)))

\* sponge: `for (s_i, c_i) in s.iter_mut().zip(chunk) { *s_i ^= *c_i; }`
XorChunk(state, chunk) ==
    [i \in 1..Len(state) |->
        IF i <= Len(chunk) THEN state[i] # chunk[i] ELSE state[i]]

\* sponge: `p`, the input extended by the padding
Padded(n, r) == n \o pad101(r, Len(n))

h2b(h, n) ==
    LET all == [k \in 1..(U8BITS * Len(h)) |->
                   ((h[((k - 1) \div 8) + 1] \div Pow2((k - 1) % 8)) % 2) = 1]
    IN  Take(all, n)

\* b2h: the fold of one chunk, `byte | ((bit as u8) << i)`
RECURSIVE B2hFold(_, _, _)
B2hFold(chunk, i, byte) ==
    IF i >= Len(chunk) THEN byte
    ELSE B2hFold(chunk, i + 1,
                 BitOr(byte, U8((IF chunk[i + 1] THEN 1 ELSE 0) * Pow2(i))))

\* mutant of b2h: the bits of a chunk packed most significant bit first
b2h_MsbFirst(q) ==
    [k \in 1..NumChunks(q, U8BITS) |->
        LET chunk == Chunk(q, U8BITS, k - 1)
        IN  B2hFold([i \in 1..Len(chunk) |-> chunk[Len(chunk) + 1 - i]], 0, 0)]

b2h(q) ==
    [k \in 1..NumChunks(q, U8BITS) |-> B2hFold(Chunk(q, U8BITS, k - 1), 0, 0)]

-----------------------------------------------------------------------------
(* The calls made on the crate *)

\* number of rate-sized blocks up to which inputs are drawn
MaxBlocks == 2

\* an input of len bytes: "abcdefg..." ("abc" when len = 3)
Msg(len) == [i \in 1..len |-> 97 + ((i - 1) % 26)]

DigestBits == {224, 256, 384, 512}

RateBytes(n) == (B - 2 * n) \div U8BITS

\* the empty input, "abc", and the lengths around each block boundary
InputLens(n) ==
    {0, 3} \cup {k * RateBytes(n) - 1 : k \in 1..(MaxBlocks - 1)}
           \cup {k * RateBytes(n) : k \in 1..(MaxBlocks - 1)}

Sha3Calls ==
    UNION {{[fn |-> "sha3", n |-> n, input |-> Msg(len)] : len \in InputLens(n)} :
              n \in DigestBits}

\* keccak(c, n, d) called with an output longer than the rate
KeccakCalls ==
    {[fn |-> "keccak", c |-> 512, n |-> <<FALSE, TRUE>>, d |-> 1089],
     [fn |-> "keccak", c |-> 1024, n |-> <<TRUE, TRUE, FALSE, TRUE>>, d |-> 1152],
     [fn |-> "keccak", c |-> 512, n |-> <<>>, d |-> 1601]}

Idle ==
    /\ bits = <<>>
    /\ sp = [r |-> 0, d |-> 0]
    /\ p = <<>>
    /\ blk = 0
    /\ s = <<>>
    /\ z = <<>>
    /\ caller = "none"
    /\ roundIdx = 0
    /\ out = <<>>
    /\ ret = <<>>
    /\ nAbsorbF = 0
    /\ nSqueezeF = 0
    /\ sqs = <<>>

Init ==
    /\ call \in Sha3Calls \cup KeccakCalls
    /\ pc = call.fn
    /\ st = new_state
    /\ Idle

-----------------------------------------------------------------------------
(* sha3!, keccak, sponge *)

\* sha3!: h2b, the domain suffix, and the call keccak($n * 2, &bits, $n)
Sha3Begin ==
    /\ pc = "sha3"
    /\ bits' = h2b(call.input, Len(call.input) * U8BITS) \o <<FALSE, TRUE>>
    /\ sp' = [r |-> B - call.n * 2, d |-> call.n]
    /\ pc' = "sponge"
    /\ UNCHANGED <<call, p, blk, s, z, caller, st, roundIdx, out, ret,
                   nAbsorbF, nSqueezeF, sqs>>

\* keccak: sponge(keccak_f, pad101, B - c, n, d)
KeccakBegin ==
    /\ pc = "keccak"
    /\ bits' = call.n
    /\ sp' = [r |-> B - call.c, d |-> call.d]
    /\ pc' = "sponge"
    /\ UNCHANGED <<call, p, blk, s, z, caller, st, roundIdx, out, ret,
                   nAbsorbF, nSqueezeF, sqs>>

\* sponge: p, the assertion, the zero state
SpongeBegin ==
    /\ pc = "sponge"
    /\ p' = Padded(bits, sp.r)
    /\ s' = [i \in 1..B |-> FALSE]
    /\ blk' = 0
    /\ pc' = IF sp.r < B THEN "absorb" ELSE "panic"
    /\ UNCHANGED <<call, bits, sp, z, caller, st, roundIdx, out, ret,
                   nAbsorbF, nSqueezeF, sqs>>

\* sponge: one pass of `for chunk in p.chunks(r)`, up to the call of f
Absorb ==
    /\ pc = "absorb"
    /\ blk < NumChunks(p, sp.r)
    /\ s' = XorChunk(s, Chunk(p, sp.r, blk))
    /\ blk' = blk + 1
    /\ caller' = "absorb"
    /\ nAbsorbF' = nAbsorbF + 1
    /\ pc' = "keccak_f"
    /\ UNCHANGED <<call, bits, sp, p, z, st, roundIdx, out, ret, nSqueezeF, sqs>>

\* sponge: the chunks are exhausted; `let mut z = Vec::new()`
AbsorbEnd ==
    /\ pc = "absorb"
    /\ blk >= NumChunks(p, sp.r)
    /\ z' = <<>>
    /\ pc' = "squeeze"
    /\ UNCHANGED <<call, bits, sp, p, blk, s, caller, st, roundIdx, out, ret,
                   nAbsorbF, nSqueezeF, sqs>>

\* sponge: one pass of `while z.len() < d`, up to the call of f
Squeeze ==
    /\ pc = "squeeze"
    /\ Len(z) < sp.d
    /\ z' = z \o s
    /\ sqs' = Append(sqs, s)
    /\ caller' = "squeeze"
    /\ nSqueezeF' = nSqueezeF + 1
    /\ pc' = "keccak_f"
    /\ UNCHANGED <<call, bits, sp, p, blk, s, st, roundIdx, out, ret, nAbsorbF>>

\* sponge: z.truncate(d) and the return
SqueezeEnd ==
    /\ pc = "squeeze"
    /\ Len(z) >= sp.d
    /\ z' = truncate(z, sp.d)
    /\ pc' = IF call.fn = "sha3" THEN "pack" ELSE "done"
    /\ UNCHANGED <<call, bits, sp, p, blk, s, caller, st, roundIdx, out, ret,
                   nAbsorbF, nSqueezeF, sqs>>

\* sha3!: b2h and try_into().expect("incorrect length")
Sha3Pack ==
    /\ pc = "pack"
    /\ out' = b2h(z)
    /\ pc' = IF Len(b2h(z)) = call.n \div U8BITS THEN "done" ELSE "panic"
    /\ UNCHANGED <<call, bits, sp, p, blk, s, z, caller, st, roundIdx, ret,
                   nAbsorbF, nSqueezeF, sqs>>

-----------------------------------------------------------------------------
(* keccak_f and round *)

\* keccak_f: new_state, fill_state, and the entry of the loop over the rounds
KeccakFill ==
    /\ pc = "keccak_f"
    /\ st' = fill_state(new_state, s)
    /\ roundIdx' = 0
    /\ pc' = IF 0 < num_rounds THEN "theta" ELSE "dump"
    /\ UNCHANGED <<call, bits, sp, p, blk, s, z, caller, out, ret,
                   nAbsorbF, nSqueezeF, sqs>>

Theta ==
    /\ pc = "theta"
    /\ st' = theta(st)
    /\ pc' = "rho"
    /\ UNCHANGED <<call, bits, sp, p, blk, s, z, caller, roundIdx, out, ret,
                   nAbsorbF, nSqueezeF, sqs>>

Rho ==
    /\ pc = "rho"
    /\ st' = rho(st)
    /\ pc' = "pi"
    /\ UNCHANGED <<call, bits, sp, p, blk, s, z, caller, roundIdx, out, ret,
                   nAbsorbF, nSqueezeF, sqs>>

Pi ==
    /\ pc = "pi"
    /\ st' = pi(st)
    /\ pc' = "chi"
    /\ UNCHANGED <<call, bits, sp, p, blk, s, z, caller, roundIdx, out, ret,
                   nAbsorbF, nSqueezeF, sqs>>

Chi ==
    /\ pc = "chi"
    /\ st' = chi(st)
    /\ pc' = "iota"
    /\ UNCHANGED <<call, bits, sp, p, blk, s, z, caller, roundIdx, out, ret,
                   nAbsorbF, nSqueezeF, sqs>>

\* round: iota(state, round_index) with round_index = i as u8, then the
\* next pass of `for i in 0..num_rounds`
Iota ==
    /\ pc = "iota"
    /\ st' = iota(st, U8(roundIdx))
    /\ roundIdx' = roundIdx + 1
    /\ pc' = IF roundIdx + 1 < num_rounds THEN "theta" ELSE "dump"
    /\ UNCHANGED <<call, bits, sp, p, blk, s, z, caller, out, ret,
                   nAbsorbF, nSqueezeF, sqs>>

\* keccak_f: dump_state(state), returned to the loop of sponge that called f
KeccakDump ==
    /\ pc = "dump"
    /\ s' = dump_state(st)
    /\ pc' = caller
    /\ UNCHANGED <<call, bits, sp, p, blk, z, caller, st, roundIdx, out, ret,
                   nAbsorbF, nSqueezeF, sqs>>

Next ==
    \/ Sha3Begin
    \/ KeccakBegin
    \/ SpongeBegin
    \/ Absorb
    \/ AbsorbEnd
    \/ Squeeze
    \/ SqueezeEnd
    \/ Sha3Pack
    \/ KeccakFill
    \/ Theta
    \/ Rho
    \/ Pi
    \/ Chi
    \/ Iota
    \/ KeccakDump

Spec == Init /\ [][Next]_vars

-----------------------------------------------------------------------------
(* rho called on its own, on every state with a single bit set *)

OneHot(x0, y0, z0) ==
    [x \in 0..4 |-> [y \in 0..4 |-> [zz \in 0..(W - 1) |->
        x = x0 /\ y = y0 /\ zz = z0]]]

InitRho ==
    /\ call \in {[fn |-> "rho", x |-> x, y |-> y, z |-> zz] :
                    x \in 0..4, y \in 0..4, zz \in 0..(W - 1)}
    /\ pc = "rho"
    /\ st = OneHot(call.x, call.y, call.z)
    /\ Idle

SpecRho == InitRho /\ [][Rho]_vars

-----------------------------------------------------------------------------
(* rc called on its own for every u8, and iota on the zero state for every
   round index keccak_f passes *)

InitRc ==
    /\ call \in {[fn |-> "rc", t |-> t] : t \in 0..255}
                  \cup {[fn |-> "iota", round_index |-> i] : i \in 0..(num_rounds - 1)}
    /\ pc = call.fn
    /\ st = new_state
    /\ bits = <<>>
    /\ sp = [r |-> 0, d |-> 0]
    /\ p = <<>>
    /\ blk = 0
    /\ s = <<>>
    /\ z = <<>>
    /\ caller = "none"
    /\ roundIdx = IF call.fn = "iota" THEN call.round_index ELSE 0
    /\ out = <<>>
    /\ ret = <<>>
    /\ nAbsorbF = 0
    /\ nSqueezeF = 0
    /\ sqs = <<>>

RcCall ==
    /\ pc = "rc"
    /\ ret' = rc(call.t)
    /\ pc' = "done"
    /\ UNCHANGED <<call, bits, sp, p, blk, s, z, caller, st, roundIdx, out,
                   nAbsorbF, nSqueezeF, sqs>>

NextRc ==
    \/ RcCall
    \/ Iota

SpecRc == InitRc /\ [][NextRc]_vars

-----------------------------------------------------------------------------
(* pad101 called on its own *)

\* largest block size and message length pad101 is called with
MaxPadX == 12

MaxPadM == 30

InitPad ==
    /\ call \in {[fn |-> "pad101", x |-> x, m |-> m] :
                    x \in 1..MaxPadX, m \in 0..MaxPadM}
    /\ pc = "pad101"
    /\ st = new_state
    /\ Idle

PadCall ==
    /\ pc = "pad101"
    /\ ret' = pad101(call.x, call.m)
    /\ pc' = "done"
    /\ UNCHANGED <<call, bits, sp, p, blk, s, z, caller, st, roundIdx, out,
                   nAbsorbF, nSqueezeF, sqs>>

SpecPad == InitPad /\ [][PadCall]_vars

-----------------------------------------------------------------------------
(* h2b and b2h called on their own *)

\* longest byte buffer handed to h2b
MaxCodecLen == 2

\* the bytes of the buffers of two bytes and more
CodecBytes == {0, 1, 97, 128, 255}

CodecBuffers ==
    {<<>>} \cup {<<v>> : v \in 0..255}
           \cup UNION {[1..k -> CodecBytes] : k \in 2..MaxCodecLen}

InitCodec ==
    /\ call \in UNION {{[fn |-> "h2b", h |-> h, n |-> n] :
                           n \in 0..(U8BITS * Len(h))} : h \in CodecBuffers}
    /\ pc = "h2b"
    /\ st = new_state
    /\ Idle

H2bCall ==
    /\ pc = "h2b"
    /\ bits' = h2b(call.h, call.n)
    /\ pc' = "b2h"
    /\ UNCHANGED <<call, sp, p, blk, s, z, caller, st, roundIdx, out, ret,
                   nAbsorbF, nSqueezeF, sqs>>

B2hCall ==
    /\ pc = "b2h"
    /\ out' = b2h(bits)
    /\ pc' = "done"
    /\ UNCHANGED <<call, bits, sp, p, blk, s, z, caller, st, roundIdx, ret,
                   nAbsorbF, nSqueezeF, sqs>>

NextCodec ==
    \/ H2bCall
    \/ B2hCall

SpecCodec == InitCodec /\ [][NextCodec]_vars

-----------------------------------------------------------------------------
(* fill_state and dump_state called on their own *)

\* the bit vectors are the binary digits 0..MaxIndexBit of the position
MaxIndexBit == 10

IndexBits(k, len) == [i \in 1..len |-> ((i - 1) \div Pow2(k)) % 2 = 1]

StateLens == {0, 1, W - 1, W, W + 1, 5 * W, B - 1, B}

AllTrue == [x \in 0..4 |-> [y \in 0..4 |-> [zz \in 0..(W - 1) |-> TRUE]]]

BaseState(name) == IF name = "new_state" THEN new_state ELSE AllTrue

InitState ==
    /\ call \in {[fn |-> "fill_state", bits |-> IndexBits(k, len), base |-> b] :
                    k \in 0..MaxIndexBit, len \in StateLens,
                    b \in {"new_state", "all_true"}}
    /\ pc = "fill_state"
    /\ st = BaseState(call.base)
    /\ Idle

FillCall ==
    /\ pc = "fill_state"
    /\ st' = fill_state(st, call.bits)
    /\ pc' = "dump_state"
    /\ UNCHANGED <<call, bits, sp, p, blk, s, z, caller, roundIdx, out, ret,
                   nAbsorbF, nSqueezeF, sqs>>

DumpCall ==
    /\ pc = "dump_state"
    /\ ret' = dump_state(st)
    /\ pc' = "done"
    /\ UNCHANGED <<call, bits, sp, p, blk, s, z, caller, st, roundIdx, out,
                   nAbsorbF, nSqueezeF, sqs>>

NextState ==
    \/ FillCall
    \/ DumpCall

SpecState == InitState /\ [][NextState]_vars

-----------------------------------------------------------------------------
(* Claims about rho, checked under SpecRho *)

\* The rho offsets of FIPS 202, listed by 5y + x.
RhoOffsets ==
    <<0, 1, 62, 28, 27, 36, 44, 6, 55, 20, 3, 10, 43, 25, 39, 41, 45, 15, 21,
      8, 18, 2, 61, 56, 14>>

\* C3: rho rotates every lane by the canonical FIPS 202 offset o(x, y), that
\* is A'[x][y][(z + o(x, y)) mod 64] = A[x][y][z]; equivalently the lane of
\* step t of the recurrence gets A'[x][y][z] = A[x][y][(z - (t+1)(t+2)/2) mod 64].
\* On a state with the single bit (x, y, z) set: the bit set afterwards.
C3_RhoOffsets ==
    (pc = "pi" /\ call.fn = "rho") =>
        /\ \A x \in 0..4, y \in 0..4, zz \in 0..(W - 1) :
              st[x][y][zz] =
                  (/\ x = call.x
                   /\ y = call.y
                   /\ zz = (call.z + RhoOffsets[5 * call.y + call.x + 1]) % W)
        /\ \A t \in 0..23 :
              RhoLanes[t] = <<call.x, call.y>> =>
                  \A zz \in 0..(W - 1) :
                      st[call.x][call.y][zz] =
                          ((zz - ((t + 1) * (t + 2)) \div 2) % W = call.z)

-----------------------------------------------------------------------------
(* Claims about rc and iota, checked under SpecRc *)

\* One step of the bit-vector LFSR of FIPS 202 on R[0..7] (here R[1..8]):
\* R = 0 || R; R[0], R[4], R[5], R[6] each get R[8] XORed in; R = Trunc8[R].
FipsLfsrStep(R) ==
    LET R9 == <<0>> \o R
    IN  [i \in 1..8 |->
            IF i \in {1, 5, 6, 7} THEN (R9[i] + R9[9]) % 2 ELSE R9[i]]

\* k steps of the LFSR (evaluated by halves, as RcLoop is)
RECURSIVE FipsLfsr(_, _)
FipsLfsr(R, k) ==
    IF k = 0 THEN R
    ELSE IF k = 1 THEN FipsLfsrStep(R)
    ELSE LET h == FipsLfsr(R, k \div 2)
         IN  IF Len(h) = 8 THEN FipsLfsr(h, k - (k \div 2)) ELSE h

FipsRc(t) == FipsLfsr(<<1, 0, 0, 0, 0, 0, 0, 0>>, t % 255)[1] = 1

\* The published Keccak-f[1600] round constants, as the sets of their set bits.
KeccakRC ==
    <<
    {0},    \* round 0: 0x0000000000000001
    {1, 7, 15},    \* round 1: 0x0000000000008082
    {1, 3, 7, 15, 63},    \* round 2: 0x800000000000808A
    {15, 31, 63},    \* round 3: 0x8000000080008000
    {0, 1, 3, 7, 15},    \* round 4: 0x000000000000808B
    {0, 31},    \* round 5: 0x0000000080000001
    {0, 7, 15, 31, 63},    \* round 6: 0x8000000080008081
    {0, 3, 15, 63},    \* round 7: 0x8000000000008009
    {1, 3, 7},    \* round 8: 0x000000000000008A
    {3, 7},    \* round 9: 0x0000000000000088
    {0, 3, 15, 31},    \* round 10: 0x0000000080008009
    {1, 3, 31},    \* round 11: 0x000000008000000A
    {0, 1, 3, 7, 15, 31},    \* round 12: 0x000000008000808B
    {0, 1, 3, 7, 63},    \* round 13: 0x800000000000008B
    {0, 3, 7, 15, 63},    \* round 14: 0x8000000000008089
    {0, 1, 15, 63},    \* round 15: 0x8000000000008003
    {1, 15, 63},    \* round 16: 0x8000000000008002
    {7, 63},    \* round 17: 0x8000000000000080
    {1, 3, 15},    \* round 18: 0x000000000000800A
    {1, 3, 31, 63},    \* round 19: 0x800000008000000A
    {0, 7, 15, 31, 63},    \* round 20: 0x8000000080008081
    {7, 15, 63},    \* round 21: 0x8000000000008080
    {0, 31},    \* round 22: 0x0000000080000001
    {3, 15, 31, 63}    \* round 23: 0x8000000080008008
    >>

\* C4: for every t in 0..255 the integer form of rc equals the bit-vector
\* LFSR of FIPS 202, rc(0) = 1, and for every round r in 0..23 the lane iota
\* XORs into A[0][0] is the published round constant of round r.
C4_RoundConstants ==
    /\ (pc = "done" /\ call.fn = "rc") =>
          /\ ret = FipsRc(call.t)
          /\ call.t = 0 => ret = TRUE
    /\ (pc \in {"theta", "dump"} /\ call.fn = "iota") =>
          \A zz \in 0..(W - 1) :
              st[0][0][zz] = (zz \in KeccakRC[call.round_index + 1])

-----------------------------------------------------------------------------
(* Claims about pad101, checked under SpecPad *)

\* C5: pad101(x, m) has length ((-m - 2) mod x) + 2, its first and last bits
\* are 1 and all others 0; the length is at least 2 and at most x + 1, and
\* m + |pad| is a positive multiple of x, so a message of m bits followed by
\* the padding splits into whole chunks of x bits with no short final chunk.
C5_Pad101 ==
    (pc = "done" /\ call.fn = "pad101") =>
        LET x == call.x
            m == call.m
            q == [i \in 1..m |-> FALSE] \o ret
        IN  /\ Len(ret) = ((0 - m - 2) % x) + 2
            /\ \A i \in 1..Len(ret) : ret[i] = (i = 1 \/ i = Len(ret))
            /\ Len(ret) >= 2
            /\ Len(ret) <= x + 1
            /\ (m + Len(ret)) % x = 0
            /\ m + Len(ret) > 0
            /\ NumChunks(q, x) * x = Len(q)
            /\ \A i \in 0..(NumChunks(q, x) - 1) : Len(Chunk(q, x, i)) = x

\* C5 witness: the message ends one bit short of a block, so the padding
\* takes x + 1 bits and runs into a block of its own.
C5_Witness ==
    /\ pc = "done"
    /\ call.fn = "pad101"
    /\ call.x > 2
    /\ call.m > call.x
    /\ call.m % call.x = call.x - 1
    /\ Len(ret) = call.x + 1
    /\ ret[1] /\ ret[Len(ret)] /\ ~ret[2]

-----------------------------------------------------------------------------
(* Claims about the codec, checked under SpecCodec *)

\* the value of bits q[lo..hi] packed least significant bit first
RECURSIVE LsbValue(_, _, _)
LsbValue(q, lo, hi) ==
    IF lo > hi THEN 0
    ELSE (IF q[lo] THEN 1 ELSE 0) + 2 * LsbValue(q, lo + 1, hi)

\* C6: b2h(h2b(H, 8 * |H|)) = H; h2b emits bit i of byte k as (H[k] >> i) & 1
\* for i = 0..7 in that order, b2h packs each group of 8 bits b0..b7 as the
\* sum of b_i * 2^i, and a trailing partial group goes into one final byte
\* whose high bits are zero.
C6_CodecRoundTrip ==
    /\ (pc \in {"b2h", "done"} /\ call.fn = "h2b") =>
          /\ Len(bits) = call.n
          /\ \A k \in 0..(Len(call.h) - 1) : \A i \in 0..7 :
                8 * k + i < call.n =>
                    bits[8 * k + i + 1] = ((call.h[k + 1] \div Pow2(i)) % 2 = 1)
    /\ (pc = "done" /\ call.fn = "h2b") =>
          /\ call.n = 8 * Len(call.h) => out = call.h
          /\ Len(out) = (call.n + 7) \div 8
          /\ \A g \in 1..Len(out) :
                out[g] = LsbValue(bits, 8 * (g - 1) + 1, Min(8 * g, call.n))
          /\ call.n % 8 # 0 => out[Len(out)] < Pow2(call.n % 8)

\* C6 witness: the two bytes 0x01 0x80 (neither is its own bit reversal) came
\* back from the round trip.
C6_Witness ==
    /\ pc = "done"
    /\ call.fn = "h2b"
    /\ call.h = <<1, 128>>
    /\ call.n = 16
    /\ out = <<1, 128>>

-----------------------------------------------------------------------------
(* Claims about the state container, checked under SpecState *)

\* C7: dump_state(fill_state(new_state(), v)) = v for |v| = 1600; both
\* directions map flat bit i = 64 * (5y + x) + z to A[x][y][z]; fill_state
\* given fewer than 1600 bits writes the first |bits| positions of that
\* order and leaves every other position of the state unchanged.
C7_StateRoundTrip ==
    /\ (pc \in {"dump_state", "done"} /\ call.fn = "fill_state") =>
          \A x \in 0..4, y \in 0..4, zz \in 0..(W - 1) :
              LET i == 64 * (5 * y + x) + zz
              IN  st[x][y][zz] =
                      IF i < Len(call.bits) THEN call.bits[i + 1]
                      ELSE BaseState(call.base)[x][y][zz]
    /\ (pc = "done" /\ call.fn = "fill_state") =>
          /\ Len(ret) = 1600
          /\ \A x \in 0..4, y \in 0..4, zz \in 0..(W - 1) :
                ret[64 * (5 * y + x) + zz + 1] = st[x][y][zz]
          /\ (Len(call.bits) = 1600 /\ call.base = "new_state") => ret = call.bits

\* C7 witness: a full vector with both values in it (bit 3 of the position)
\* went into a fresh state and came back.
C7_Witness ==
    /\ pc = "done"
    /\ call.fn = "fill_state"
    /\ call.base = "new_state"
    /\ call.bits = IndexBits(3, 1600)
    /\ ret = call.bits
    /\ st[1][2][8] /\ ~st[1][2][7]

-----------------------------------------------------------------------------
(* Claims about the hash calls, checked under Spec *)

\* the positions inside keccak_f
KeccakFPcs == {"keccak_f", "theta", "rho", "pi", "chi", "iota", "dump"}

\* The six FIPS 202 vectors: digest length, input bytes, digest bytes.
Fips202Vectors ==
{
    [n |-> 224, input |-> <<>>,
     digest |->
         <<107, 78, 3, 66, 54, 103, 219, 183, 59, 110, 21, 69, 79, 14, 177, 171,
            212, 89, 127, 154, 27, 7, 142, 63, 91, 90, 107, 199>>],
    [n |-> 256, input |-> <<>>,
     digest |->
         <<167, 255, 198, 248, 191, 30, 215, 102, 81, 193, 71, 86, 160, 97, 214,
            98, 245, 128, 255, 77, 228, 59, 73, 250, 130, 216, 10, 75,
            128, 248, 67, 74>>],
    [n |-> 384, input |-> <<>>,
     digest |->
         <<12, 99, 167, 91, 132, 94, 79, 125, 1, 16, 125, 133, 46, 76, 36, 133,
            197, 26, 80, 170, 170, 148, 252, 97, 153, 94, 113, 187, 238,
            152, 58, 42, 195, 113, 56, 49, 38, 74, 219, 71, 251, 107,
            209, 224, 88, 213, 240, 4>>],
    [n |-> 512, input |-> <<>>,
     digest |->
         <<166, 159, 115, 204, 162, 58, 154, 197, 200, 181, 103, 220, 24, 90,
            117, 110, 151, 201, 130, 22, 79, 226, 88, 89, 224, 209, 220,
            193, 71, 92, 128, 166, 21, 178, 18, 58, 241, 245, 249, 76,
            17, 227, 233, 64, 44, 58, 197, 88, 245, 0, 25, 157, 149,
            182, 211, 227, 1, 117, 133, 134, 40, 29, 205, 38>>],
    [n |-> 256, input |-> <<97, 98, 99>>,
     digest |->
         <<58, 152, 93, 167, 79, 226, 37, 178, 4, 92, 23, 45, 107, 211, 144, 189,
            133, 95, 8, 110, 62, 157, 82, 91, 70, 191, 226, 69, 17, 67,
            21, 50>>],
    [n |-> 512, input |-> <<97, 98, 99>>,
     digest |->
         <<183, 81, 133, 11, 26, 87, 22, 138, 86, 147, 205, 146, 75, 107, 9, 110,
            8, 246, 33, 130, 116, 68, 247, 13, 136, 79, 93, 2, 64, 210,
            113, 46, 16, 225, 22, 233, 25, 42, 243, 201, 26, 126, 197,
            118, 71, 227, 147, 64, 87, 52, 11, 76, 244, 8, 213, 165,
            101, 146, 248, 39, 78, 236, 83, 240>>]}

\* C1: each sha3_n call on one of the six FIPS 202 vectors (the empty input
\* for 224, 256, 384, 512; "abc" for 256 and 512) returns exactly the
\* published digest, byte for byte.
C1_Fips202Digests ==
    \A v \in Fips202Vectors :
        (pc = "done" /\ call.fn = "sha3" /\ call.n = v.n /\ call.input = v.input)
            => out = v.digest

\* C2: a sha3_n call never panics and returns exactly n/8 bytes (28, 32, 48,
\* 64): the bit string keccak returns has length n, b2h of it has length
\* n/8, and try_into succeeds.
C2_DigestLength ==
    call.fn = "sha3" =>
        /\ pc # "panic"
        /\ pc = "pack" => Len(z) = call.n
        /\ pc = "done" =>
              /\ Len(z) = call.n
              /\ Len(out) = call.n \div 8
              /\ <<call.n, Len(out)>> \in {<<224, 28>>, <<256, 32>>, <<384, 48>>, <<512, 64>>}

\* C2 witness: sha3_512 of an input of two rate blocks has returned 64 bytes.
C2_Witness ==
    /\ pc = "done"
    /\ call.fn = "sha3"
    /\ call.n = 512
    /\ NumChunks(p, sp.r) = 2
    /\ Len(out) = 64

\* the first r bits of each state of a sequence, concatenated
RECURSIVE RateStream(_, _)
RateStream(states, r) ==
    IF states = <<>> THEN <<>>
    ELSE Take(Head(states), r) \o RateStream(Tail(states), r)

\* C8: sponge returns the first d bits of the rate-prefix stream: the first
\* r bits of S, then the first r bits of f(S), then of f(f(S)), ..., where
\* S is the state after absorbing; no capacity bit reaches the output.
\* (sqs \o <<s>> are S, f(S), ... as far as the call computed them.)
C8_RatePrefixStream ==
    (pc = "done" /\ (Len(sqs) + 1) * sp.r >= sp.d)
        => z = Take(RateStream(sqs \o <<s>>, sp.r), sp.d)

\* C9: in the squeeze phase f is applied only while the output is still
\* short, so a call with d <= r and a padded message of k blocks applies f
\* exactly k times: k while absorbing and 0 while squeezing.
C9_LastPermutationElided ==
    /\ (pc \in KeccakFPcs /\ caller = "squeeze") => Len(z) < sp.d
    /\ (pc = "done" /\ sp.d <= sp.r)
          => (nAbsorbF = NumChunks(p, sp.r) /\ nSqueezeF = 0)

\* C10: in every call iota makes to rc during the rounds of keccak_f, the u8
\* expression j + 7 * round_index does not wrap (it is at most 167), t % 255
\* leaves it unchanged, and the index (1 << j) - 1 lies within the lane.
C10_IotaArgumentInRange ==
    pc = "iota" =>
        /\ roundIdx \in 0..23
        /\ U8(roundIdx) = roundIdx
        /\ \A j \in 0..L :
              /\ IotaT(j, U8(roundIdx)) <= 167
              /\ U8(IotaT(j, U8(roundIdx))) = IotaT(j, U8(roundIdx))
              /\ IotaT(j, U8(roundIdx)) % 255 = IotaT(j, U8(roundIdx))
              /\ IotaBit(j) \in 0..(W - 1)

\* C10 witness: iota is about to run in the last round, where j = L gives 167.
C10_Witness ==
    /\ pc = "iota"
    /\ roundIdx = 23
    /\ IotaT(L, U8(roundIdx)) = 167

====
